---- MODULE Spec2Model ----
(***************************************************************************)
(* A model of paddlenlp/datasets/dataset.py: MapDataset, IterDataset,      *)
(* DatasetBuilder and SimpleBuilder.                                       *)
(*                                                                         *)
(* Python lists are sequences; a Python position p (0-based) is the        *)
(* sequence index p + 1.  Six specifications share the variables:          *)
(*   SpecShard  copies of one MapDataset, each sharded with its own index  *)
(*   SpecMap    one MapDataset under map / filter / shard / __getitem__    *)
(*   SpecIter   one IterDataset under filter / shard / map and traversal   *)
(*   SpecRead   DatasetBuilder.read, read_datasets, SimpleBuilder.read     *)
(*              and traversal of the datasets they return                  *)
(*   SpecPool   one MapDataset under filter / map with callables that may  *)
(*              raise, sequential and over a worker pool                   *)
(*   SpecLoad   load_dataset                                               *)
(***************************************************************************)
EXTENDS Integers, Sequences, FiniteSets, TLC

\* ------------------------------------------------------------- bounds
MaxLen == 3          \* longest stored collection of a MapDataset
MaxShards == 3       \* largest num_shards
MaxWorkers == 2      \* largest num_workers
MaxCalls == 2        \* longest sequence of MapDataset calls
MaxSrc == 3          \* IterDataset sources hold 0 .. MaxSrc records, or ten
MaxIterCalls == 2    \* longest sequence of IterDataset filter/shard/map calls
MaxTraversals == 2   \* traversals of one IterDataset
MaxExamples == 2     \* most examples in the file whose content varies
MaxPoolCalls == 1    \* filter / map calls of SpecPool

\* The samples of the MapDataset and IterDataset models.
Values == {0, 1, 2}

SeqsUpTo(S, n) == UNION {[1 .. k -> S] : k \in 0 .. n}

\* Stored collections of up to n samples: every start value, ascending and
\* descending runs (0,1,2,0 / 2,1,0,2 / ...).
Samples(n) ==
    {[k \in 1 .. L |-> (o + s * k) % 3] : L \in 0 .. n, o \in 0 .. 2, s \in 1 .. 2}

Min(a, b) == IF a < b THEN a ELSE b

\* ------------------------------------------------ Python list helpers
\* data[start:end] for 0 <= start, 0 <= end (Python clamps both to len).
PySlice(data, start, end) ==
    LET hi == Min(end, Len(data))
        lo == Min(start, Len(data))
    IN  IF lo >= hi THEN <<>> ELSE SubSeq(data, lo + 1, hi)

\* transformed_shards[0].new_data + ... + transformed_shards[k-1].new_data
RECURSIVE ConcatShards(_, _, _)
ConcatShards(shards, i, k) ==
    IF i >= k THEN <<>>
    ELSE shards[i].new_data \o ConcatShards(shards, i + 1, k)

\* ------------------------------------------- the callables of the model
\* Sample-wise transforms (map with batched=False).
ElemFns == {"inc", "dbl"}
\* Whole-collection transforms (map with batched=True).
BatchFns == {"rev", "tail"}
\* Predicates handed to filter.
PredFns == {"pos", "even"}

\* A transform and a predicate that raise on some sample.
RaisingFns == {"inv"}
RaisingPreds == {"invpos"}

\* inc = lambda x: (x + 1) % 3, dbl = lambda x: (2 * x) % 3,
\* inv = lambda x: 2 // x
ApplyFn(fn, x) ==
    IF fn = "inc" THEN (x + 1) % 3
    ELSE IF fn = "dbl" THEN (2 * x) % 3
    ELSE 2 \div x

\* fn(x) raises ZeroDivisionError.
Raises(fn, x) == fn \in {"inv", "invpos"} /\ x = 0

\* rev = lambda xs: xs[::-1], tail = lambda xs: xs[1:]
ApplyBatchFn(fn, xs) ==
    IF fn = "rev" THEN [k \in 1 .. Len(xs) |-> xs[Len(xs) + 1 - k]]
    ELSE PySlice(xs, 1, Len(xs))

\* pos = lambda x: x > 0, even = lambda x: x % 2 == 0,
\* invpos = lambda x: 2 // x > 1
ApplyPred(fn, x) ==
    IF fn = "pos" THEN x > 0
    ELSE IF fn = "even" THEN x % 2 = 0
    ELSE 2 \div x > 1

\* ------------------------------------------------------- MapDataset
\* [self.new_data[idx] for idx in range(len(self.new_data))
\*  if idx % num_shards == index], from position idx on.
RECURSIVE StripedFrom(_, _, _, _)
StripedFrom(new_data, num_shards, index, idx) ==
    IF idx >= Len(new_data) THEN <<>>
    ELSE (IF idx % num_shards = index THEN <<new_data[idx + 1]>> ELSE <<>>)
         \o StripedFrom(new_data, num_shards, index, idx + 1)

\* A slip in the offset: start = div * index, the remainder forgotten.
MutContiguousStart(div, mod, index) == div * index

ContiguousStart(div, mod, index) == div * index + Min(index, mod)

\* A slip in the stripe test: idx % num_shards == 0 whatever the index.
MutStripedShard(new_data, num_shards, index) ==
    StripedFrom(new_data, num_shards, 0, 0)

StripedShard(new_data, num_shards, index) ==
    StripedFrom(new_data, num_shards, index, 0)

\* MapDataset.shard: the new value of self.new_data.
MapShard(new_data, num_shards, index, contiguous) ==
    IF contiguous
    THEN LET div == Len(new_data) \div num_shards
             mod == Len(new_data) % num_shards
             start == ContiguousStart(div, mod, index)
             end == start + div + (IF index < mod THEN 1 ELSE 0)
         IN  PySlice(new_data, start, end)
    ELSE StripedShard(new_data, num_shards, index)

\* [self.new_data[idx] for idx in range(len(self.new_data))
\*  if fn(self.new_data[idx])], from position idx on.
RECURSIVE FilterFrom(_, _, _)
FilterFrom(new_data, fn, idx) ==
    IF idx >= Len(new_data) THEN <<>>
    ELSE (IF ApplyPred(fn, new_data[idx + 1]) THEN <<new_data[idx + 1]>> ELSE <<>>)
         \o FilterFrom(new_data, fn, idx + 1)

\* MapDataset._filter: the new value of self.new_data.
Map_filter(new_data, fn) == FilterFrom(new_data, fn, 0)

\* for fn in self._transform_pipline: data = fn(data)
RECURSIVE Map_transform(_, _)
Map_transform(pipline, data) ==
    IF pipline = <<>> THEN data
    ELSE Map_transform(Tail(pipline), ApplyFn(Head(pipline), data))

\* MapDataset.__getitem__ for 0 <= idx < len(self).
Map_getitem(new_data, pipline, idx) ==
    IF pipline # <<>> THEN Map_transform(pipline, new_data[idx + 1])
    ELSE new_data[idx + 1]

\* A slip: a transform already registered is not registered again.
MutPipelineAppend(pipline, fn) ==
    IF \E k \in 1 .. Len(pipline) : pipline[k] = fn THEN pipline
    ELSE Append(pipline, fn)

\* self._transform_pipline.append(fn)
PipelineAppend(pipline, fn) == Append(pipline, fn)

\* A slip: lazy is honoured although batched is set.
MutMap_map(ds, fn, lazy, batched) ==
    IF lazy
    THEN [ds EXCEPT !.transform_pipline = PipelineAppend(@, fn)]
    ELSE IF batched
    THEN [ds EXCEPT !.new_data = ApplyBatchFn(fn, @)]
    ELSE [ds EXCEPT !.new_data = [k \in 1 .. Len(@) |-> ApplyFn(fn, @[k])]]

\* A slip: an eager map is applied to the record as __getitem__ returns it,
\* the lazy transforms first.
MutMap_mapAfterPipeline(ds, fn, lazy, batched) ==
    IF batched
    THEN [ds EXCEPT !.new_data = ApplyBatchFn(fn, @)]
    ELSE IF lazy
    THEN [ds EXCEPT !.transform_pipline = PipelineAppend(@, fn)]
    ELSE [ds EXCEPT !.new_data =
             [k \in 1 .. Len(@) |->
                 ApplyFn(fn, Map_transform(ds.transform_pipline, @[k]))]]

\* MapDataset._map on the dataset ds = [new_data, transform_pipline].
Map_map(ds, fn, lazy, batched) ==
    IF batched
    THEN [ds EXCEPT !.new_data = ApplyBatchFn(fn, @)]
    ELSE IF lazy
    THEN [ds EXCEPT !.transform_pipline = PipelineAppend(@, fn)]
    ELSE [ds EXCEPT !.new_data = [k \in 1 .. Len(@) |-> ApplyFn(fn, @[k])]]

\* The exception self._filter(fn) raises on new_data, "" if none: fn is
\* called on every stored sample.
FilterError(new_data, fn) ==
    IF \E k \in 1 .. Len(new_data) : Raises(fn, new_data[k])
    THEN "ZeroDivisionError" ELSE ""

\* The exception self._map(fn, lazy, batched) raises on ds, "" if none: a
\* sample-wise fn is called on every stored sample unless the map is lazy.
MapError(ds, fn, lazy, batched) ==
    IF ~batched /\ ~lazy /\ \E k \in 1 .. Len(ds.new_data) : Raises(fn, ds.new_data[k])
    THEN "ZeroDivisionError" ELSE ""

\* The first k in i .. num_workers - 1 whose result holds an exception, or
\* num_workers.
RECURSIVE FirstRaised(_, _, _)
FirstRaised(shards, i, num_workers) ==
    IF i >= num_workers THEN num_workers
    ELSE IF shards[i].error # "" THEN i
    ELSE FirstRaised(shards, i + 1, num_workers)

\* A slip: the result of a worker that raised is skipped.
MutCollect(shards, num_workers) ==
    [error |-> "",
     new_data |-> ConcatShards([i \in 0 .. num_workers - 1 |->
                                  IF shards[i].error # ""
                                  THEN [new_data |-> <<>>] ELSE shards[i]],
                               0, num_workers)]

\* transformed_shards = [r.get() for r in results]: r.get() raises what the
\* task raised; otherwise self.new_data = [] and, for i in range(num_workers),
\* self.new_data += transformed_shards[i].new_data.
Collect(shards, num_workers) ==
    LET bad == FirstRaised(shards, 0, num_workers)
    IN  IF bad < num_workers
        THEN [error |-> shards[bad].error, new_data |-> <<>>]
        ELSE [error |-> "", new_data |-> ConcatShards(shards, 0, num_workers)]

\* ------------------------------------------------------ IterDataset
\* Predicates handed to IterDataset.filter:
\*   pos = lambda x: x > 0, truthy = lambda x: bool(x), falsy = lambda x: not x
IterPredFns == {"pos", "truthy", "falsy"}

\* A Python value a predicate may receive: a sample, or a list object.
AsSample(x) == [is_list |-> FALSE, sample |-> x, list |-> <<>>]
AsList(l) == [is_list |-> TRUE, sample |-> 0, list |-> l]

\* fn(arg): "True", "False", or the exception raised.  x > 0 on a list
\* raises TypeError; bool(list) is len(list) > 0.
ApplyIterPred(fn, arg) ==
    IF arg.is_list
    THEN IF fn = "pos" THEN "TypeError"
         ELSE IF fn = "truthy"
              THEN (IF Len(arg.list) > 0 THEN "True" ELSE "False")
              ELSE (IF Len(arg.list) > 0 THEN "False" ELSE "True")
    ELSE IF fn = "pos" THEN (IF arg.sample > 0 THEN "True" ELSE "False")
         ELSE IF fn = "truthy"
              THEN (IF arg.sample # 0 THEN "True" ELSE "False")
              ELSE (IF arg.sample = 0 THEN "True" ELSE "False")

\* IterDataset._filter(data): for fn in self._filter_pipline:
\*     if not fn(data): return False
\* return True
RECURSIVE Iter_filter(_, _)
Iter_filter(pipline, data) ==
    IF pipline = <<>> THEN "True"
    ELSE LET r == ApplyIterPred(Head(pipline), data)
         IN  IF r = "True" THEN Iter_filter(Tail(pipline), data) ELSE r

\* The argument __iter__ hands to self._filter: self._filter_pipline.
FilterArgument(pipline, example) == AsList(pipline)

\* The default _shard_filter returns True; shard() installs
\* partial(sharder, num_shards, index): num_samples % num_shards == index.
NoShard == [set |-> FALSE, num_shards |-> 1, index |-> 0]
Iter_shard_filter(shard_filter, num_samples) ==
    IF shard_filter.set
    THEN num_samples % shard_filter.num_shards = shard_filter.index
    ELSE TRUE

\* A slip: a shard predicate already installed is kept.
MutInstallShard(shard_filter, num_shards, index) ==
    IF shard_filter.set THEN shard_filter
    ELSE [set |-> TRUE, num_shards |-> num_shards, index |-> index]

\* fn = partial(sharder, num_shards=num_shards, index=index)
\* self._shard_filter = fn
InstallShard(shard_filter, num_shards, index) ==
    [set |-> TRUE, num_shards |-> num_shards, index |-> index]

\* (not self._filter_pipline or self._filter(self._filter_pipline))
\*     and self._shard_filter(num_samples=num_samples):
\* "True", "False", or the exception raised.
IterKeep(pipline, shard_filter, example, num_samples) ==
    LET passed == IF pipline = <<>> THEN "True"
                  ELSE Iter_filter(pipline, FilterArgument(pipline, example))
    IN  IF passed # "True" THEN passed
        ELSE IF Iter_shard_filter(shard_filter, num_samples) THEN "True"
        ELSE "False"

\* self._transform(example) if self._transform_pipline else example
RECURSIVE Iter_transform(_, _)
Iter_transform(pipline, data) ==
    IF pipline = <<>> THEN data
    ELSE Iter_transform(Tail(pipline), ApplyFn(Head(pipline), data))

\* A slip: the counter moved into the if, counting only yielded records.
MutNextNumSamples(num_samples, keep) ==
    IF keep = "True" THEN num_samples + 1 ELSE num_samples

\* num_samples += 1, after the if.
NextNumSamples(num_samples, keep) == num_samples + 1

\* ---------------------------------------------------- DatasetBuilder
\* The value of a record field: absent, None, a string, a list or a tuple
\* of strings, or (once converted) an int or a list of ints.
Absent == [kind |-> "absent", strs |-> <<>>, ids |-> <<>>]
PyNone == [kind |-> "none", strs |-> <<>>, ids |-> <<>>]
Str(s) == [kind |-> "str", strs |-> <<s>>, ids |-> <<>>]
StrList(ss) == [kind |-> "list", strs |-> ss, ids |-> <<>>]
StrTuple(ss) == [kind |-> "tuple", strs |-> ss, ids |-> <<>>]
PyInt(i) == [kind |-> "int", strs |-> <<>>, ids |-> <<i>>]
IntList(is) == [kind |-> "ints", strs |-> <<>>, ids |-> is]

\* Python truth of a field value (None and "absent", i.e. get -> None, are false).
Truthy(v) ==
    CASE v.kind = "str" -> v.strs[1] # ""
      [] v.kind \in {"list", "tuple"} -> Len(v.strs) > 0
      [] v.kind = "int" -> v.ids[1] # 0
      [] v.kind = "ints" -> Len(v.ids) > 0
      [] OTHER -> FALSE

\* 'labels' if present, elif 'label', else None.
LabelCol(example) ==
    IF example.labels.kind # "absent" THEN "labels"
    ELSE IF example.label.kind # "absent" THEN "label"
    ELSE "None"

\* example.get(label_col, None); an absent key gives None.
GetField(example, col) ==
    IF col = "labels" THEN example.labels
    ELSE IF col = "label" THEN example.label
    ELSE Absent

SetField(example, col, v) ==
    IF col = "labels" THEN [example EXCEPT !.labels = v]
    ELSE [example EXCEPT !.label = v]

\* label_dict[label] = i for i, label in enumerate(label_list): the last
\* position of a label; -1 stands for a missing key.
LabelDict(label_list, s) ==
    LET at == {i \in 1 .. Len(label_list) : label_list[i] = s}
    IN  IF at = {} THEN -1 ELSE (CHOOSE i \in at : \A j \in at : j <= i) - 1

\* The conversion of one field value that is present in the record:
\* [err, value].  A list is converted element by element; a tuple takes the
\* same branch and fails on the first item assignment; anything else is
\* looked up as one key.
ConvertValue(v, label_list) ==
    IF v.kind \in {"list", "tuple"}
    THEN IF \E k \in 1 .. Len(v.strs) : LabelDict(label_list, v.strs[k]) < 0
            /\ (v.kind = "list" \/ LabelDict(label_list, v.strs[1]) < 0)
         THEN [err |-> "KeyError", value |-> v]
         ELSE IF v.kind = "tuple" /\ Len(v.strs) > 0
         THEN [err |-> "TypeError", value |-> v]
         ELSE IF v.kind = "tuple"
         THEN [err |-> "", value |-> v]
         ELSE [err |-> "",
               value |-> IntList([k \in 1 .. Len(v.strs) |->
                                     LabelDict(label_list, v.strs[k])])]
    ELSE IF v.kind = "str" /\ LabelDict(label_list, v.strs[1]) >= 0
    THEN [err |-> "", value |-> PyInt(LabelDict(label_list, v.strs[1]))]
    ELSE [err |-> "KeyError", value |-> v]

\* label_list as returned by get_labels(): None, or a list of strings.
NoLabels == [given |-> FALSE, labels |-> <<>>]
Labels(ls) == [given |-> TRUE, labels |-> ls]

\* The body of the loop of generate_examples for one example: [err, example].
\* The label column is detected on this example.
LazyExample(example, label_list) ==
    LET label_col == LabelCol(example)
        v == GetField(example, label_col)
    IN  IF label_list.given /\ Truthy(v)
        THEN LET c == ConvertValue(v, label_list.labels)
             IN  [err |-> c.err,
                  example |-> IF c.err = "" THEN SetField(example, label_col, c.value)
                              ELSE example]
        ELSE [err |-> "", example |-> example]

\* examples[idx][label_col] converted in place, in the eager branch:
\* [err, example].  The column is the one detected on examples[0]; a record
\* without that key raises KeyError.
EagerExample(example, label_col, label_list) ==
    LET v == GetField(example, label_col)
    IN  IF v.kind = "absent" THEN [err |-> "KeyError", example |-> example]
        ELSE LET c == ConvertValue(v, label_list.labels)
             IN  [err |-> c.err,
                  example |-> IF c.err = "" THEN SetField(example, label_col, c.value)
                              ELSE example]

\* The first exception of the loop over range(len(examples)), "" if none.
RECURSIVE FirstError(_)
FirstError(outs) ==
    IF outs = <<>> THEN ""
    ELSE IF Head(outs).err # "" THEN Head(outs).err
    ELSE FirstError(Tail(outs))

\* The data source of an IterDataset: a function (called on every
\* traversal), a generator object, or a list.  `raw` are the examples the
\* source draws from; with `convert` set the source is the generator of
\* DatasetBuilder.read, which converts the labels of each example it yields.
Source(kind, raw, convert, label_list) ==
    [kind |-> kind, raw |-> raw, convert |-> convert, label_list |-> label_list]
NoSource == Source("list", <<>>, FALSE, NoLabels)

\* What a read returns or raises: status is "MapDataset" (new_data holds the
\* stored examples), "IterDataset" (data holds the source), or the exception.
Raised(exception) == [status |-> exception, new_data |-> <<>>, data |-> NoSource]
MapDataset(examples) == [status |-> "MapDataset", new_data |-> examples,
                         data |-> NoSource]
IterDataset(data) == [status |-> "IterDataset", new_data |-> <<>>, data |-> data]

\* The label conversion of the eager branch, on a non-empty list of examples.
EagerLabels(examples, label_list) ==
    LET label_col == LabelCol(examples[1])
    IN  IF label_list.given /\ Truthy(GetField(examples[1], label_col))
        THEN LET outs == [idx \in 1 .. Len(examples) |->
                             EagerExample(examples[idx], label_col, label_list)]
             IN  IF FirstError(outs) # "" THEN Raised(FirstError(outs))
                 ELSE MapDataset([idx \in 1 .. Len(examples) |-> outs[idx].example])
        ELSE MapDataset(examples)

\* A slip: the check for an empty list of examples is missing.
MutEagerRead(examples, label_list) ==
    IF examples = <<>> THEN MapDataset(examples)
    ELSE EagerLabels(examples, label_list)

\* The eager branch of DatasetBuilder.read on the examples _read produced.
EagerRead(examples, label_list) ==
    IF examples = <<>> THEN Raised("ValueError")
    ELSE EagerLabels(examples, label_list)

\* next() on the source at position pos of raw: [err, example].
FetchExample(data, pos) ==
    IF data.convert THEN LazyExample(data.raw[pos + 1], data.label_list)
    ELSE [err |-> "", example |-> data.raw[pos + 1]]

\* A slip: the generator function is wrapped, not the generator it returns.
MutLazyRead(examples, label_list) ==
    IterDataset(Source("function", examples, TRUE, label_list))

\* self.lazy branch of DatasetBuilder.read: IterDataset(generate_examples(), ...)
\* wraps a generator object; nothing is read until it is traversed.
LazyRead(examples, label_list) ==
    IterDataset(Source("generator", examples, TRUE, label_list))

\* DatasetBuilder.read(filename, split) of a builder, _read(filename, split)
\* producing `examples`.
BuilderRead(builder, examples) ==
    IF builder.lazy THEN LazyRead(examples, builder.label_list)
    ELSE EagerRead(examples, builder.label_list)

\* SimpleBuilder.read: the lazy branch wraps the generator function, the
\* eager branch stores the examples as they are.
SimpleBuilderRead(lazy, examples) ==
    IF lazy THEN IterDataset(Source("function", examples, FALSE, NoLabels))
    ELSE MapDataset(examples)

\* ------------------------------------------- read_datasets arguments
\* A value of `splits` or `data_files`: None, a string, a list or a tuple of
\* strings, or (data_files) a dict from split name to file name, in
\* insertion order.
ArgNone == [kind |-> "none", items |-> <<>>]
ArgFile(f) == [kind |-> "str", items |-> <<[split |-> "", filename |-> f]>>]
ArgFiles(kind, fs) ==
    [kind |-> kind, items |-> [k \in 1 .. Len(fs) |-> [split |-> "", filename |-> fs[k]]]]
ArgDict(pairs) ==
    [kind |-> "dict",
     items |-> [k \in 1 .. Len(pairs) |->
                  [split |-> pairs[k][1], filename |-> pairs[k][2]]]]
ArgSplit(sp) == [kind |-> "str", items |-> <<[split |-> sp, filename |-> ""]>>]
ArgSplits(kind, sps) ==
    [kind |-> kind, items |-> [k \in 1 .. Len(sps) |-> [split |-> sps[k], filename |-> ""]]]

\* Python truth of such a value: None, "", [], () and {} are false.
ArgTruthy(a) ==
    CASE a.kind = "none" -> FALSE
      [] a.kind = "str" -> a.items[1].split # "" \/ a.items[1].filename # ""
      [] OTHER -> Len(a.items) > 0

\* _get_data(split) of the concrete builder: the local path of a split.
GetData(split) ==
    CASE split = "train" -> "t.jsonl"
      [] split = "dev" -> "d.jsonl"
      [] OTHER -> "e.jsonl"

\* The read calls of the `if data_files:` block, in order.
DataFilesReads(data_files) ==
    IF ~ArgTruthy(data_files) THEN <<>>
    ELSE IF data_files.kind = "dict"
    THEN [k \in 1 .. Len(data_files.items) |->
            [filename |-> data_files.items[k].filename,
             split |-> data_files.items[k].split]]
    ELSE [k \in 1 .. Len(data_files.items) |->
            [filename |-> data_files.items[k].filename, split |-> "train"]]

\* The read calls of the `if splits:` block, in order.
SplitsReads(splits) ==
    IF ~ArgTruthy(splits) THEN <<>>
    ELSE [k \in 1 .. Len(splits.items) |->
            [filename |-> GetData(splits.items[k].split),
             split |-> splits.items[k].split]]

\* A slip: the splits are read before the data files.
MutReadOrder(splits, data_files) ==
    SplitsReads(splits) \o DataFilesReads(data_files)

\* The read calls of read_datasets, in the order the code makes them.
ReadOrder(splits, data_files) ==
    DataFilesReads(data_files) \o SplitsReads(splits)

\* The first k with a failed read, or Len + 1.
RECURSIVE FirstFailure(_, _)
FirstFailure(results, k) ==
    IF k > Len(results) THEN k
    ELSE IF results[k].status \notin {"MapDataset", "IterDataset"} THEN k
    ELSE FirstFailure(results, k + 1)

\* DatasetBuilder.read_datasets(splits, data_files):
\* [status, reads, datasets, single].  status is "returned" or the exception;
\* reads are the read calls made; single tells that datasets[0] is returned
\* rather than the list.
ReadDatasets(builder, contents, splits, data_files) ==
    IF ~(ArgTruthy(splits) \/ ArgTruthy(data_files))
    THEN [status |-> "AssertionError", reads |-> <<>>, datasets |-> <<>>,
          single |-> FALSE]
    ELSE LET order == ReadOrder(splits, data_files)
             results == [k \in 1 .. Len(order) |->
                            BuilderRead(builder, contents[order[k].filename])]
             bad == FirstFailure(results, 1)
         IN  IF bad <= Len(order)
             THEN [status |-> results[bad].status, reads |-> SubSeq(order, 1, bad),
                   datasets |-> <<>>, single |-> FALSE]
             ELSE [status |-> "returned", reads |-> order, datasets |-> results,
                   single |-> ~(Len(results) > 1)]

\* ---------------------------------------------------------- load_dataset
\* The `name` and `lazy` arguments: None, or a value.
NoName == [given |-> FALSE, value |-> ""]
Name(s) == [given |-> TRUE, value |-> s]
LazyNone == [given |-> FALSE, value |-> FALSE]
Lazy(b) == [given |-> TRUE, value |-> b]

\* The class import_main_class returns: what it declares.  BUILDER_CONFIGS
\* maps a config name to the split names under its 'splits' key; SPLITS
\* holds split names.
ReaderClass(has_configs, configs, has_splits, splits) ==
    [has_configs |-> has_configs, configs |-> configs,
     has_splits |-> has_splits, splits |-> splits]
NoConfigs == [n \in {} |-> {}]
TwoConfigs ==
    [n \in {"a", "b"} |-> IF n = "a" THEN {"train", "dev"} ELSE {"train", "test"}]

\* selected_splits: the keys of a dict data_files, then the elements of a
\* list or tuple splits, or else splits itself (None included).
SelectedSplits(splits, data_files) ==
    (IF data_files.kind = "dict"
     THEN [k \in 1 .. Len(data_files.items) |->
             [is_none |-> FALSE, value |-> data_files.items[k].split]]
     ELSE <<>>)
    \o (IF splits.kind \in {"list", "tuple"}
        THEN [k \in 1 .. Len(splits.items) |->
                [is_none |-> FALSE, value |-> splits.items[k].split]]
        ELSE IF splits.kind = "none" THEN <<[is_none |-> TRUE, value |-> ""]>>
        ELSE <<[is_none |-> FALSE, value |-> splits.items[1].split]>>)

\* The check of name and splits in load_dataset: the exception raised and
\* the argument it is raised for, or no exception.
Passed == [error |-> "", what |-> ""]
ValidateSelection(reader_cls, name, splits, data_files) ==
    IF reader_cls.has_configs
       /\ ~(name.given /\ name.value \in DOMAIN reader_cls.configs)
    THEN [error |-> "ValueError", what |-> "name"]
    ELSE IF ~reader_cls.has_configs /\ ~reader_cls.has_splits
    THEN [error |-> "AttributeError", what |-> "class"]
    ELSE LET split_names == IF reader_cls.has_configs
                            THEN reader_cls.configs[name.value]
                            ELSE reader_cls.splits
             selected_splits == SelectedSplits(splits, data_files)
         IN  IF \E k \in DOMAIN selected_splits :
                   /\ selected_splits[k].value \notin split_names
                   /\ ~selected_splits[k].is_none
             THEN [error |-> "ValueError", what |-> "split"]
             ELSE Passed

\* reader_cls(lazy=lazy, name=name, **kwargs): the class attribute lazy
\* stands unless lazy is given.
ReaderInstance(builder, lazy) ==
    [builder EXCEPT !.lazy = IF lazy.given THEN lazy.value ELSE @]

\* custom_kwargs: the parameters of the read function found in kwargs, which
\* holds name, data_files and splits.
CustomKwargs(parameters) == parameters \cap {"name", "data_files", "splits"}

\* load_dataset(path_or_read_func, name, data_files, splits, lazy):
\* [error, what, custom_kwargs, result].  source.is_function tells a read
\* function (with its parameters and the examples it produces) from a name.
NoResult == [status |-> "none", reads |-> <<>>, datasets |-> <<>>, single |-> FALSE]
Load_dataset(source, reader_cls, builder, contents, name, data_files, splits, lazy) ==
    IF source.is_function
    THEN IF ~lazy.given
         THEN [error |-> "AssertionError", what |-> "lazy", custom_kwargs |-> {},
               result |-> NoResult]
         ELSE LET ds == SimpleBuilderRead(lazy.value, source.examples)
              IN  [error |-> "", what |-> "",
                   custom_kwargs |-> CustomKwargs(source.parameters),
                   result |-> [status |-> "returned", reads |-> <<>>,
                               datasets |-> <<ds>>, single |-> TRUE]]
    ELSE LET v == ValidateSelection(reader_cls, name, splits, data_files)
         IN  IF v.error # ""
             THEN [error |-> v.error, what |-> v.what, custom_kwargs |-> {},
                   result |-> NoResult]
             ELSE [error |-> "", what |-> "", custom_kwargs |-> {},
                   result |-> ReadDatasets(ReaderInstance(builder, lazy), contents,
                                           splits, data_files)]


VARIABLES
    \* SpecShard
    sh_orig,             \* the dataset every copy starts from
    sh_num_shards,
    sh_contiguous,
    sh_copies,           \* index -> [done, new_data]: copy i after shard(index=i)
    \* SpecMap
    new_data,            \* MapDataset.new_data
    transform_pipline,   \* MapDataset._transform_pipline
    pool,                \* the worker pool of a filter/map with num_workers > 0
    last,                \* the call that completed last, with the state before it
    got,                 \* the last __getitem__: [idx, value]
    registered,          \* history: the fn of every lazy map call, in call order
    calls,               \* number of calls made
    origin,              \* history, kept while position i holds the record
                         \* that descends from position i of the collection
                         \* the dataset was built on: that collection, and
                         \* the fn of every eager sample-wise map in call order
    \* SpecIter (and the traversals of SpecRead)
    it_data,             \* IterDataset.data
    gen,                 \* the generator object in data: [pos, done]
    filter_pipline,      \* IterDataset._filter_pipline
    it_transform_pipline,\* IterDataset._transform_pipline
    shard_filter,        \* IterDataset._shard_filter
    it,                  \* the traversal (__iter__) begun last
    yielded,             \* what that traversal has yielded so far
    it_calls,            \* number of filter / shard / map calls made
    shard_calls,         \* history: [num_shards, index] of every shard call
    \* SpecRead
    builder,             \* the DatasetBuilder: [lazy, label_list]
    files,               \* file name -> the examples _read produces from it
    rd,                  \* the read / read_datasets call made last and its result
    \* SpecLoad
    reader_cls,          \* the class import_main_class returns
    ld                   \* the load_dataset call made and its outcome

shardVars == <<sh_orig, sh_num_shards, sh_contiguous, sh_copies>>
mapVars == <<new_data, transform_pipline, pool, last, got, registered, calls,
             origin>>
iterVars == <<it_data, gen, filter_pipline, it_transform_pipline, shard_filter,
              it, yielded, it_calls, shard_calls>>
readVars == <<builder, files, rd>>
loadVars == <<reader_cls, ld>>
vars == <<shardVars, mapVars, iterVars, readVars, loadVars>>
notShard == <<mapVars, iterVars, readVars, loadVars>>
notMap == <<shardVars, iterVars, readVars, loadVars>>
notIter == <<shardVars, mapVars, readVars, loadVars>>
notRead == <<shardVars, mapVars, loadVars>>
notLoad == <<shardVars, mapVars, iterVars, readVars>>

\* ----------------------------------------------------------- SpecShard
NoPool == [active |-> FALSE, op |-> "none", fn |-> "none", lazy |-> FALSE,
           batched |-> FALSE, num_workers |-> 0, shards |-> <<>>]
NoCall == [op |-> "none", fn |-> "none", lazy |-> FALSE, batched |-> FALSE,
           num_workers |-> 0, before |-> <<>>, returned |-> "none"]
NoGot == [valid |-> FALSE, idx |-> 0, value |-> 0]
\* A filter, a shard or a batched map has moved or dropped records.
Unaligned == [data |-> <<>>, eager |-> <<>>, aligned |-> FALSE]

ShardIdle ==
    /\ sh_orig = <<>>
    /\ sh_num_shards = 1
    /\ sh_contiguous = FALSE
    /\ sh_copies = <<>>

MapIdle ==
    /\ new_data = <<>>
    /\ transform_pipline = <<>>
    /\ pool = NoPool
    /\ last = NoCall
    /\ got = NoGot
    /\ registered = <<>>
    /\ calls = 0
    /\ origin = [data |-> new_data, eager |-> <<>>, aligned |-> TRUE]

NoTraversal == [state |-> "none", num_samples |-> 0, read |-> 0, warned |-> FALSE,
                error |-> "", start_pos |-> 0, started_exhausted |-> FALSE,
                traversals |-> 0]

IterIdle ==
    /\ it_data = NoSource
    /\ gen = [pos |-> 0, done |-> FALSE]
    /\ filter_pipline = <<>>
    /\ it_transform_pipline = <<>>
    /\ shard_filter = NoShard
    /\ it = NoTraversal
    /\ yielded = <<>>
    /\ it_calls = 0
    /\ shard_calls = <<>>

NoRead == [call |-> "none", filename |-> "", split |-> "", splits |-> ArgNone,
           data_files |-> ArgNone, status |-> "none", reads |-> <<>>,
           datasets |-> <<>>, single |-> FALSE]

ReadIdle ==
    /\ builder = [lazy |-> FALSE, label_list |-> NoLabels]
    /\ files = <<>>
    /\ rd = NoRead

NoLoad == [called |-> FALSE, source |-> [is_function |-> FALSE, parameters |-> {},
                                        examples |-> <<>>],
           name |-> NoName, data_files |-> ArgNone, splits |-> ArgNone,
           lazy |-> LazyNone, error |-> "", what |-> "", custom_kwargs |-> {},
           result |-> NoResult]

LoadIdle ==
    /\ reader_cls = ReaderClass(FALSE, NoConfigs, FALSE, {})
    /\ ld = NoLoad

InitShard ==
    /\ sh_orig \in SeqsUpTo(Values, MaxLen + 1)
    /\ sh_num_shards \in 1 .. MaxShards
    /\ sh_contiguous \in BOOLEAN
    /\ sh_copies = [i \in 0 .. sh_num_shards - 1 |->
                      [done |-> FALSE, new_data |-> sh_orig]]
    /\ MapIdle
    /\ IterIdle
    /\ ReadIdle
    /\ LoadIdle

\* copy i of the dataset calls shard(num_shards, index=i, contiguous).
ShardCopy(i) ==
    /\ ~sh_copies[i].done
    /\ sh_copies' = [sh_copies EXCEPT ![i] =
           [done |-> TRUE,
            new_data |-> MapShard(@.new_data, sh_num_shards, i, sh_contiguous)]]
    /\ UNCHANGED <<sh_orig, sh_num_shards, sh_contiguous, notShard>>

NextShard == \E i \in 0 .. sh_num_shards - 1 : ShardCopy(i)

SpecShard == InitShard /\ [][NextShard]_vars

\* C1 (a): with contiguous=true, shard i of L records over n shards is the
\* range [div*i + min(i, mod), +div + (1 if i < mod else 0)), and once every
\* copy is sharded the shards 0..n-1 concatenated are the original sequence.
\* C1 (b): with contiguous=false, shard i holds the records at the positions
\* p with p mod n = i in their original order, so that every position of the
\* original lies in exactly one shard.
ShardRangeOf(i) ==
    LET L == Len(sh_orig)
        div == L \div sh_num_shards
        mod == L % sh_num_shards
        start == div * i + Min(i, mod)
        size == div + (IF i < mod THEN 1 ELSE 0)
    IN  [k \in 1 .. size |-> sh_orig[start + k]]
StripePositions(i) == {p \in 0 .. Len(sh_orig) - 1 : p % sh_num_shards = i}
StripeOf(i) ==
    [k \in 1 .. Cardinality(StripePositions(i)) |->
        sh_orig[i + (k - 1) * sh_num_shards + 1]]
AllSharded == \A i \in 0 .. sh_num_shards - 1 : sh_copies[i].done
C1_ShardPartition ==
    /\ \A i \in DOMAIN sh_copies :
          sh_copies[i].done =>
             sh_copies[i].new_data =
                (IF sh_contiguous THEN ShardRangeOf(i) ELSE StripeOf(i))
    /\ (AllSharded /\ sh_contiguous) =>
          ConcatShards(sh_copies, 0, sh_num_shards) = sh_orig
    /\ (AllSharded /\ ~sh_contiguous) =>
          /\ \A p \in 0 .. Len(sh_orig) - 1 :
                Cardinality({i \in 0 .. sh_num_shards - 1 : p \in StripePositions(i)}) = 1
          /\ Len(ConcatShards(sh_copies, 0, sh_num_shards)) = Len(sh_orig)
\* Both policies met with a length the shard count does not divide.
C1_Witness ==
    /\ sh_copies # <<>>
    /\ AllSharded
    /\ sh_num_shards = 3
    /\ Len(sh_orig) = 4
    /\ sh_orig[1] # sh_orig[2]

\* ------------------------------------------------------------- SpecMap
InitMap ==
    /\ new_data \in Samples(MaxLen)
    /\ transform_pipline = <<>>
    /\ pool = NoPool
    /\ last = NoCall
    /\ got = NoGot
    /\ registered = <<>>
    /\ calls = 0
    /\ origin = [data |-> new_data, eager |-> <<>>, aligned |-> TRUE]
    /\ ShardIdle
    /\ IterIdle
    /\ ReadIdle
    /\ LoadIdle

CanCall == ~pool.active /\ calls < MaxCalls

\* Pool(num_workers) and the apply_async calls: every task carries its own
\* pickled copy of self.
StartPool(op, fn, lazy, batched, num_workers) ==
    pool' = [active |-> TRUE, op |-> op, fn |-> fn, lazy |-> lazy,
             batched |-> batched, num_workers |-> num_workers,
             shards |-> [i \in 0 .. num_workers - 1 |->
                          [done |-> FALSE, error |-> "", new_data |-> new_data,
                           transform_pipline |-> transform_pipline]]]

\* MapDataset.map(fn, lazy, batched, num_workers)
MapCall(fn, lazy, batched, num_workers) ==
    /\ CanCall
    /\ calls' = calls + 1
    /\ got' = NoGot
    /\ IF num_workers < 0
       THEN /\ last' = [NoCall EXCEPT !.op = "map", !.num_workers = num_workers,
                                       !.before = new_data,
                                       !.returned = "AssertionError"]
            /\ UNCHANGED <<new_data, transform_pipline, pool, registered, origin>>
       ELSE IF num_workers > 0
       THEN /\ StartPool("map", fn, lazy, batched, num_workers)
            /\ UNCHANGED <<new_data, transform_pipline, last, registered, origin>>
       ELSE LET self == [new_data |-> new_data,
                             transform_pipline |-> transform_pipline]
                raised == MapError(self, fn, lazy, batched)
                ds == IF raised # "" THEN self ELSE Map_map(self, fn, lazy, batched)
            IN  /\ new_data' = ds.new_data
                /\ transform_pipline' = ds.transform_pipline
                /\ registered' = IF lazy /\ ~batched THEN Append(registered, fn)
                                 ELSE registered
                /\ origin' = IF raised # "" \/ (lazy /\ ~batched) THEN origin
                             ELSE IF batched THEN Unaligned
                             ELSE IF origin.aligned
                             THEN [origin EXCEPT !.eager = Append(@, fn)]
                             ELSE origin
                /\ last' = [op |-> "map", fn |-> fn, lazy |-> lazy,
                            batched |-> batched, num_workers |-> 0,
                            before |-> new_data,
                            returned |-> IF raised # "" THEN raised ELSE "self"]
                /\ UNCHANGED pool
    /\ UNCHANGED notMap

\* MapDataset.filter(fn, num_workers)
FilterCall(fn, num_workers) ==
    /\ CanCall
    /\ calls' = calls + 1
    /\ got' = NoGot
    /\ IF num_workers < 0
       THEN /\ last' = [NoCall EXCEPT !.op = "filter", !.num_workers = num_workers,
                                       !.before = new_data,
                                       !.returned = "AssertionError"]
            /\ UNCHANGED <<new_data, pool, origin>>
       ELSE IF num_workers > 0
       THEN /\ StartPool("filter", fn, FALSE, FALSE, num_workers)
            /\ UNCHANGED <<new_data, last, origin>>
       ELSE LET raised == FilterError(new_data, fn)
            IN  /\ new_data' = IF raised # "" THEN new_data
                               ELSE Map_filter(new_data, fn)
                /\ last' = [op |-> "filter", fn |-> fn, lazy |-> FALSE,
                            batched |-> FALSE, num_workers |-> 0,
                            before |-> new_data,
                            returned |-> IF raised # "" THEN raised ELSE "self"]
                /\ origin' = IF Len(new_data') = Len(new_data) THEN origin
                             ELSE Unaligned
                /\ UNCHANGED pool
    /\ UNCHANGED <<transform_pipline, registered, notMap>>

\* MapDataset.shard(num_shards, index, contiguous) on the dataset itself.
ShardCall(num_shards, index, contiguous) ==
    /\ CanCall
    /\ calls' = calls + 1
    /\ got' = NoGot
    /\ new_data' = MapShard(new_data, num_shards, index, contiguous)
    /\ last' = [op |-> "shard", fn |-> "none", lazy |-> FALSE, batched |-> contiguous,
                num_workers |-> 0, before |-> new_data, returned |-> "self"]
    /\ origin' = IF Len(new_data') = Len(new_data) THEN origin ELSE Unaligned
    /\ UNCHANGED <<transform_pipline, pool, registered, notMap>>

\* filter_shard / map_shard of task i, run on the task's copy of self.
WorkerRun(i) ==
    /\ pool.active
    /\ ~pool.shards[i].done
    /\ LET self == pool.shards[i]
           piece == [new_data |-> MapShard(self.new_data, pool.num_workers, i, TRUE),
                     transform_pipline |-> self.transform_pipline]
           raised == IF pool.op = "filter" THEN FilterError(piece.new_data, pool.fn)
                     ELSE MapError(piece, pool.fn, FALSE, pool.batched)
           out == IF raised # "" THEN piece
                  ELSE IF pool.op = "filter"
                  THEN [piece EXCEPT !.new_data = Map_filter(@, pool.fn)]
                  ELSE Map_map(piece, pool.fn, FALSE, pool.batched)
       IN  pool' = [pool EXCEPT
                       !.shards[i] = [done |-> TRUE, error |-> raised,
                                      new_data |-> out.new_data,
                                      transform_pipline |-> out.transform_pipline]]
    /\ UNCHANGED <<new_data, transform_pipline, last, got, registered, calls,
                   origin, notMap>>

\* transformed_shards = [r.get() for r in results]; self.new_data = [];
\* for i in range(num_workers): self.new_data += transformed_shards[i].new_data
\* r.get() blocks until task r is done, so the results are collected up to
\* the first task that raised, or all of them; leaving the with block ends
\* the pool.
PoolJoin ==
    /\ pool.active
    /\ LET bad == FirstRaised(pool.shards, 0, pool.num_workers)
       IN  \A i \in 0 .. pool.num_workers - 1 : i <= bad => pool.shards[i].done
    /\ LET r == Collect(pool.shards, pool.num_workers)
       IN  /\ new_data' = IF r.error # "" THEN new_data ELSE r.new_data
           /\ last' = [op |-> pool.op, fn |-> pool.fn, lazy |-> pool.lazy,
                       batched |-> pool.batched, num_workers |-> pool.num_workers,
                       before |-> new_data,
                       returned |-> IF r.error # "" THEN r.error ELSE "self"]
           /\ origin' = IF r.error # "" THEN origin
                        ELSE IF pool.op = "filter"
                        THEN (IF Len(r.new_data) = Len(new_data) THEN origin
                              ELSE Unaligned)
                        ELSE IF pool.batched THEN Unaligned
                        ELSE IF origin.aligned
                        THEN [origin EXCEPT !.eager = Append(@, pool.fn)]
                        ELSE origin
    /\ pool' = NoPool
    /\ UNCHANGED <<transform_pipline, got, registered, calls, notMap>>

\* MapDataset.__getitem__(idx) for a valid position.
GetItem(idx) ==
    /\ ~pool.active
    /\ idx < Len(new_data)
    /\ got' = [valid |-> TRUE, idx |-> idx,
               value |-> Map_getitem(new_data, transform_pipline, idx)]
    /\ UNCHANGED <<new_data, transform_pipline, pool, last, registered, calls,
                   origin, notMap>>

NextMap ==
    \/ \E fn \in ElemFns, lazy \in BOOLEAN, nw \in -1 .. MaxWorkers :
          MapCall(fn, lazy, FALSE, nw)
    \/ \E fn \in BatchFns, lazy \in BOOLEAN, nw \in -1 .. MaxWorkers :
          MapCall(fn, lazy, TRUE, nw)
    \/ \E fn \in PredFns, nw \in -1 .. MaxWorkers : FilterCall(fn, nw)
    \/ \E n \in 1 .. MaxShards, c \in BOOLEAN : \E i \in 0 .. n - 1 :
          ShardCall(n, i, c)
    \/ \E i \in 0 .. MaxWorkers - 1 : i < pool.num_workers /\ WorkerRun(i)
    \/ PoolJoin
    \/ \E idx \in 0 .. MaxLen : GetItem(idx)

SpecMap == InitMap /\ [][NextMap]_vars

\* C4: MapDataset.filter leaves the same sequence whether num_workers is 0
\* or k > 0: in both cases the stored collection becomes the stable
\* subsequence of the collection before the call that holds exactly the
\* records on which the predicate is true.
StableSubsequence(data, fn) == SelectSeq(data, LAMBDA x: ApplyPred(fn, x))
C4_FilterParallelEqualsSequential ==
    (last.op = "filter" /\ last.returned = "self") =>
        new_data = StableSubsequence(last.before, last.fn)
\* A parallel filter over a length the worker count does not divide, which
\* dropped a record and kept records of two different shards.
C4_Witness ==
    /\ last.op = "filter" /\ last.returned = "self"
    /\ last.num_workers = 2
    /\ Len(last.before) = 3
    /\ Len(new_data) = 2
    /\ new_data[1] # new_data[2]
    /\ ~ApplyPred(last.fn, last.before[2])

\* C6: after lazy map calls map(f1), ..., map(fk), get(i) is
\* fk(...f2(f1(r_i))...) for the stored record r_i: every registered
\* transform is applied, in registration order, as often as it was
\* registered; with no transform registered get(i) is r_i itself.
RECURSIVE ComposeInOrder(_, _)
ComposeInOrder(fns, r) ==
    IF Len(fns) = 0 THEN r
    ELSE ApplyFn(fns[Len(fns)], ComposeInOrder(SubSeq(fns, 1, Len(fns) - 1), r))
C6_GetFoldsPipeline ==
    got.valid => got.value = ComposeInOrder(registered, new_data[got.idx + 1])
\* The same transform registered twice and applied twice: inc(inc(r)) # inc(r).
C6_Witness ==
    /\ got.valid
    /\ registered = <<"inc", "inc">>
    /\ got.value = (new_data[got.idx + 1] + 2) % 3
C6_WitnessOrder ==
    /\ got.valid
    /\ registered = <<"inc", "dbl">>
    /\ got.value # ApplyFn("inc", ApplyFn("dbl", new_data[got.idx + 1]))

\* C10: the effects of map with num_workers = 0.  batched=false, lazy=true:
\* fn is appended to the pipeline, the stored collection (and so the length)
\* is unchanged.  batched=false, lazy=false: the stored collection becomes fn
\* of each stored record in order, the pipeline is unchanged.  batched=true:
\* the stored collection becomes fn(stored collection) whatever lazy is, the
\* pipeline is unchanged.  The call returns the dataset itself.  (fn is a
\* function that returns a value on every record it is applied to.)
MapStep ==
    /\ calls' = calls + 1
    /\ ~pool'.active
    /\ last'.op = "map" /\ last'.num_workers = 0
    /\ MapError([new_data |-> new_data, transform_pipline |-> transform_pipline],
                last'.fn, last'.lazy, last'.batched) = ""
C10_MapFrame ==
    [][MapStep =>
         /\ last'.returned = "self"
         /\ (~last'.batched /\ last'.lazy) =>
               /\ transform_pipline' = transform_pipline \o <<last'.fn>>
               /\ new_data' = new_data
               /\ Len(new_data') = Len(new_data)
         /\ (~last'.batched /\ ~last'.lazy) =>
               /\ Len(new_data') = Len(new_data)
               /\ \A k \in 1 .. Len(new_data) :
                     new_data'[k] = ApplyFn(last'.fn, new_data[k])
               /\ transform_pipline' = transform_pipline
         /\ last'.batched =>
               /\ new_data' = ApplyBatchFn(last'.fn, new_data)
               /\ transform_pipline' = transform_pipline]_vars
\* A batched map called with lazy=true has replaced the stored collection.
C10_Witness ==
    /\ last.op = "map" /\ last.returned = "self" /\ last.num_workers = 0
    /\ last.batched /\ last.lazy
    /\ new_data # last.before
    /\ transform_pipline = <<>>

\* C14: lazy and eager maps do not compose in call order.  An eager map is
\* applied to the stored records at once and never passes through the lazy
\* pipeline: after map(f, lazy=true) and then map(g, lazy=false), get(i) is
\* f(g(r_i)), not g(f(r_i)).  In general get(i) is the lazy transforms, in
\* registration order, applied to the eager maps, in call order, applied to
\* the original record.  filter evaluates its predicate on the stored
\* record, before any lazy transform.
EagerMapLast ==
    /\ last.op = "map" /\ last.returned = "self" /\ ~last.batched
    /\ (~last.lazy \/ last.num_workers > 0)
C14_EagerBeforeLazy ==
    /\ (got.valid /\ EagerMapLast) =>
          got.value = ComposeInOrder(registered,
                         ApplyFn(last.fn, last.before[got.idx + 1]))
    /\ (got.valid /\ origin.aligned) =>
          got.value = ComposeInOrder(registered,
                         ComposeInOrder(origin.eager, origin.data[got.idx + 1]))
    /\ (last.op = "filter" /\ last.returned = "self") =>
          new_data = SelectSeq(last.before, LAMBDA r : ApplyPred(last.fn, r))
\* map(inc, lazy=true), then map(dbl, lazy=false), then get(i):
\* inc(dbl(r_i)), which is not dbl(inc(r_i)).
C14_Witness ==
    /\ got.valid
    /\ calls = 2
    /\ registered = <<"inc">>
    /\ origin.aligned /\ origin.eager = <<"dbl">>
    /\ EagerMapLast /\ last.fn = "dbl" /\ last.num_workers = 0
    /\ got.value = ApplyFn("inc", ApplyFn("dbl", origin.data[got.idx + 1]))
    /\ got.value # ApplyFn("dbl", ApplyFn("inc", origin.data[got.idx + 1]))
\* A filter after a lazy map kept a record whose transformed value fails the
\* predicate, and get returns that value.
C14_WitnessFilter ==
    /\ got.valid
    /\ registered # <<>>
    /\ last.op = "filter" /\ last.returned = "self"
    /\ Len(new_data) < Len(last.before)
    /\ ApplyPred(last.fn, new_data[got.idx + 1])
    /\ ~ApplyPred(last.fn, got.value)

\* ------------------------------------------------------------ SpecPool
\* A MapDataset that may hold a lazy transform, under filter and map calls
\* whose callable may raise.
InitPool ==
    /\ new_data \in Samples(MaxLen)
    /\ transform_pipline \in SeqsUpTo(ElemFns, 1)
    /\ registered = transform_pipline
    /\ pool = NoPool
    /\ last = NoCall
    /\ got = NoGot
    /\ calls = 0
    /\ origin = [data |-> new_data, eager |-> <<>>, aligned |-> TRUE]
    /\ ShardIdle
    /\ IterIdle
    /\ ReadIdle
    /\ LoadIdle

NextPool ==
    \/ \E fn \in ElemFns \cup RaisingFns, lazy \in BOOLEAN, nw \in 0 .. MaxWorkers :
          calls < MaxPoolCalls /\ MapCall(fn, lazy, FALSE, nw)
    \/ \E fn \in BatchFns, nw \in 0 .. MaxWorkers :
          calls < MaxPoolCalls /\ MapCall(fn, FALSE, TRUE, nw)
    \/ \E fn \in PredFns \cup RaisingPreds, nw \in 0 .. MaxWorkers :
          calls < MaxPoolCalls /\ FilterCall(fn, nw)
    \/ \E i \in 0 .. MaxWorkers - 1 : i < pool.num_workers /\ WorkerRun(i)
    \/ PoolJoin

SpecPool == InitPool /\ [][NextPool]_vars

\* C13: during filter or map with num_workers = k > 0 every worker shards
\* and processes its own copy of the dataset (a step of one worker changes
\* that worker's copy and nothing else); the caller's stored collection is
\* not modified before the results of all k workers are collected; the final
\* stored collection is the workers' results concatenated in shard-index
\* order 0 .. k-1, whatever the order in which the workers finish; if a
\* worker fails the error propagates and the caller's stored collection is
\* left as it was.
PieceOf(data, k, i) ==
    LET div == Len(data) \div k
        mod == Len(data) % k
        start == div * i + Min(i, mod)
        size == div + (IF i < mod THEN 1 ELSE 0)
    IN  [j \in 1 .. size |-> data[start + j]]
PieceFails(op, fn, batched, piece) ==
    ~batched /\ \E j \in 1 .. Len(piece) : Raises(fn, piece[j])
PieceResult(op, fn, batched, piece) ==
    IF op = "filter" THEN SelectSeq(piece, LAMBDA x : ApplyPred(fn, x))
    ELSE IF batched THEN ApplyBatchFn(fn, piece)
    ELSE [j \in 1 .. Len(piece) |-> ApplyFn(fn, piece[j])]
RECURSIVE ResultsInIndexOrder(_, _, _, _, _, _)
ResultsInIndexOrder(op, fn, batched, data, k, i) ==
    IF i >= k THEN <<>>
    ELSE PieceResult(op, fn, batched, PieceOf(data, k, i))
         \o ResultsInIndexOrder(op, fn, batched, data, k, i + 1)
WorkersIsolated ==
    pool.active =>
        \A i \in 0 .. pool.num_workers - 1 :
            LET piece == PieceOf(new_data, pool.num_workers, i)
                fails == PieceFails(pool.op, pool.fn, pool.batched, piece)
            IN  /\ pool.shards[i].transform_pipline = transform_pipline
                /\ ~pool.shards[i].done => pool.shards[i].new_data = new_data
                /\ pool.shards[i].done =>
                      /\ (pool.shards[i].error # "") <=> fails
                      /\ ~fails => pool.shards[i].new_data =
                            PieceResult(pool.op, pool.fn, pool.batched, piece)
ParallelOutcome ==
    (last.num_workers > 0) =>
        LET fails == \E i \in 0 .. last.num_workers - 1 :
                        PieceFails(last.op, last.fn, last.batched,
                                   PieceOf(last.before, last.num_workers, i))
        IN  /\ (last.returned # "self") <=> fails
            /\ fails => new_data = last.before
            /\ ~fails => new_data =
                  ResultsInIndexOrder(last.op, last.fn, last.batched, last.before,
                                      last.num_workers, 0)
C13_ParallelIsolation ==
    [][/\ WorkersIsolated'
       /\ ParallelOutcome'
       /\ pool.active =>
             /\ transform_pipline' = transform_pipline
             /\ new_data' # new_data =>
                   /\ ~pool'.active
                   /\ \A i \in 0 .. pool.num_workers - 1 :
                         pool.shards[i].done /\ pool.shards[i].error = ""
             /\ (\E i \in 0 .. pool.num_workers - 1 : pool.shards[i].error # "")
                   => new_data' = new_data
             /\ pool'.active =>
                   \A i, j \in 0 .. pool.num_workers - 1 :
                       (i # j /\ pool'.shards[i] # pool.shards[i])
                          => pool'.shards[j] = pool.shards[j]]_vars
\* A map over two workers on three records has returned: the result holds
\* the records of both shards, shard 0 first.
C13_Witness ==
    /\ last.op = "map" /\ last.num_workers = 2 /\ last.returned = "self"
    /\ ~last.batched
    /\ Len(last.before) = 3
    /\ last.before[1] # last.before[3]
    /\ new_data # last.before
    /\ new_data[1] = ApplyFn(last.fn, last.before[1])
    /\ new_data[3] = ApplyFn(last.fn, last.before[3])
\* Worker 1 has finished while worker 0 has not.
C13_WitnessOutOfOrder ==
    /\ pool.active /\ pool.num_workers = 2
    /\ pool.shards[1].done /\ ~pool.shards[0].done
    /\ pool.shards[1].new_data # <<>>
\* Worker 1 failed after worker 0 had changed its copy: the call raised and
\* the stored collection is as before.
C13_WitnessFailure ==
    /\ last.op = "map" /\ last.num_workers = 2
    /\ last.returned = "ZeroDivisionError"
    /\ Len(last.before) = 3
    /\ last.before[1] = 1 /\ last.before[3] = 0
    /\ new_data = last.before

\* ------------------------------------------------------------ SpecIter
\* Source lengths: 0 .. MaxSrc, and the ten records of the sharding example.
SrcLens == (0 .. MaxSrc) \cup {10}
IterSources == {[k \in 1 .. L |-> (o + k) % 3] : L \in SrcLens, o \in 0 .. 2}

InitIter ==
    /\ \E kind \in {"function", "generator", "list"}, raw \in IterSources :
          it_data = Source(kind, raw, FALSE, NoLabels)
    /\ gen = [pos |-> 0, done |-> FALSE]
    /\ filter_pipline = <<>>
    /\ it_transform_pipline = <<>>
    /\ shard_filter = NoShard
    /\ it = NoTraversal
    /\ yielded = <<>>
    /\ it_calls = 0
    /\ shard_calls = <<>>
    /\ ShardIdle
    /\ MapIdle
    /\ ReadIdle
    /\ LoadIdle

\* The num_shards handed to IterDataset.shard; index ranges over 0 .. n - 1.
IterShardCounts == {1, 2, 3}

\* filter / shard / map are called between traversals.
CanConfigure == it.state # "running" /\ it_calls < MaxIterCalls

\* IterDataset.filter(fn)
IterFilter(fn) ==
    /\ CanConfigure
    /\ filter_pipline' = Append(filter_pipline, fn)
    /\ it_calls' = it_calls + 1
    /\ it' = [NoTraversal EXCEPT !.traversals = it.traversals]
    /\ yielded' = <<>>
    /\ UNCHANGED <<it_data, gen, it_transform_pipline, shard_filter, shard_calls,
                   notIter>>

\* IterDataset.shard(num_shards, index)
IterShard(num_shards, index) ==
    /\ CanConfigure
    /\ shard_filter' = InstallShard(shard_filter, num_shards, index)
    /\ shard_calls' = Append(shard_calls, [num_shards |-> num_shards,
                                           index |-> index])
    /\ it_calls' = it_calls + 1
    /\ it' = [NoTraversal EXCEPT !.traversals = it.traversals]
    /\ yielded' = <<>>
    /\ UNCHANGED <<it_data, gen, filter_pipline, it_transform_pipline, notIter>>

\* IterDataset.map(fn)
IterMap(fn) ==
    /\ CanConfigure
    /\ it_transform_pipline' = Append(it_transform_pipline, fn)
    /\ it_calls' = it_calls + 1
    /\ it' = [NoTraversal EXCEPT !.traversals = it.traversals]
    /\ yielded' = <<>>
    /\ UNCHANGED <<it_data, gen, filter_pipline, shard_filter, shard_calls,
                   notIter>>

\* The position the next example comes from: a function or a list gives a
\* fresh iterator to every traversal, a generator object resumes.
SourcePos == IF it_data.kind = "generator" THEN gen.pos ELSE it.read

\* __iter__ up to its for loop: num_samples = 0; self.data() for a function;
\* the warning for a generator.
IterBegin ==
    /\ it.state # "running"
    /\ it.traversals < MaxTraversals
    /\ it' = [state |-> "running", num_samples |-> 0, read |-> 0,
              warned |-> (it_data.kind = "generator"), error |-> "",
              start_pos |-> gen.pos, started_exhausted |->
                 (it_data.kind = "generator" /\ gen.done),
              traversals |-> it.traversals + 1]
    /\ yielded' = <<>>
    /\ UNCHANGED <<it_data, gen, filter_pipline, it_transform_pipline, shard_filter,
                   it_calls, shard_calls, notIter>>

\* One turn of the for loop of __iter__: the next example of the source, the
\* test, the yield, the counter; or the end of the source.
IterStep ==
    /\ it.state = "running"
    /\ IF (it_data.kind = "generator" /\ gen.done) \/ SourcePos >= Len(it_data.raw)
       THEN /\ it' = [it EXCEPT !.state = "done"]
            /\ gen' = IF it_data.kind = "generator" THEN [gen EXCEPT !.done = TRUE]
                      ELSE gen
            /\ UNCHANGED yielded
       ELSE LET f == FetchExample(it_data, SourcePos)
                keep == IterKeep(filter_pipline, shard_filter, f.example,
                                 it.num_samples)
                out == IF it_transform_pipline # <<>>
                       THEN Iter_transform(it_transform_pipline, f.example)
                       ELSE f.example
            IN  IF f.err # ""
                THEN /\ it' = [it EXCEPT !.state = "error", !.error = f.err]
                     /\ gen' = [gen EXCEPT !.done = TRUE]
                     /\ UNCHANGED yielded
                ELSE /\ gen' = IF it_data.kind = "generator"
                               THEN [gen EXCEPT !.pos = @ + 1] ELSE gen
                     /\ IF keep \notin {"True", "False"}
                        THEN /\ it' = [it EXCEPT !.state = "error", !.error = keep,
                                                 !.read = @ + 1]
                             /\ UNCHANGED yielded
                        ELSE /\ it' = [it EXCEPT
                                         !.read = @ + 1,
                                         !.num_samples = NextNumSamples(@, keep)]
                             /\ yielded' =
                                   IF keep = "True"
                                   THEN Append(yielded,
                                          [num_samples |-> it.num_samples,
                                           src |-> SourcePos,
                                           example |-> f.example, out |-> out])
                                   ELSE yielded
    /\ UNCHANGED <<it_data, filter_pipline, it_transform_pipline, shard_filter,
                   it_calls, shard_calls, notIter>>

\* The consumer stops before the source is exhausted.
IterAbandon ==
    /\ it.state = "running"
    /\ it' = [it EXCEPT !.state = "abandoned"]
    /\ UNCHANGED <<it_data, gen, filter_pipline, it_transform_pipline, shard_filter,
                   yielded, it_calls, shard_calls, notIter>>

NextIter ==
    \/ \E fn \in IterPredFns : IterFilter(fn)
    \/ \E n \in IterShardCounts : \E i \in 0 .. n - 1 : IterShard(n, i)
    \/ \E fn \in ElemFns : IterMap(fn)
    \/ IterBegin
    \/ IterStep
    \/ IterAbandon

SpecIter == InitIter /\ [][NextIter]_vars

\* C2: a record is yielded only if every predicate of the filter pipeline is
\* true of that record; a record some registered predicate rejects is never
\* yielded.
C2_YieldedPassEveryPredicate ==
    \A j \in DOMAIN yielded : \A k \in DOMAIN filter_pipline :
        ApplyIterPred(filter_pipline[k], AsSample(yielded[j].example)) = "True"

\* C5: after shard(num_shards=n, index=i) a record is yielded only if its
\* zero-based position p in the traversal has p mod n = i; the position
\* counter counts every record read from the source, yielded or not; with no
\* filter a full traversal yields exactly the eligible positions in order
\* (0,2,4,6,8 of ten records for n=2, i=0); filters leave the eligible
\* positions as they are.
TraversalLength ==
    Len(it_data.raw) - (IF it_data.kind = "generator" THEN it.start_pos ELSE 0)
EligiblePositions ==
    {p \in 0 .. TraversalLength - 1 :
        shard_filter.set => p % shard_filter.num_shards = shard_filter.index}
YieldedPositions == [j \in DOMAIN yielded |-> yielded[j].num_samples]
C5_ShardByPosition ==
    /\ \A j \in DOMAIN yielded :
          /\ yielded[j].num_samples \in EligiblePositions
          /\ yielded[j].num_samples =
                yielded[j].src - (IF it_data.kind = "generator" THEN it.start_pos
                                  ELSE 0)
          /\ \A h \in DOMAIN yielded :
                h < j => yielded[h].num_samples < yielded[j].num_samples
    /\ it.state \in {"running", "done", "abandoned"} => it.num_samples = it.read
    /\ (it.state = "done" /\ filter_pipline = <<>>) =>
          {yielded[j].num_samples : j \in DOMAIN yielded} = EligiblePositions
\* shard(2, 0) and a full traversal of ten records: positions 0,2,4,6,8.
C5_Witness ==
    /\ it.state = "done"
    /\ Len(it_data.raw) = 10
    /\ shard_filter = [set |-> TRUE, num_shards |-> 2, index |-> 0]
    /\ filter_pipline = <<>>
    /\ YieldedPositions = <<0, 2, 4, 6, 8>>
\* The same shard under a filter that lets records through.
C5_WitnessFiltered ==
    /\ it.state = "done"
    /\ shard_filter = [set |-> TRUE, num_shards |-> 2, index |-> 1]
    /\ filter_pipline # <<>>
    /\ YieldedPositions = <<1>>

\* C11: after any sequence of IterDataset.shard calls only the most recent
\* call (n_last, i_last) is in effect: every yielded record sits at a position
\* p with p mod n_last = i_last, and a full unfiltered traversal yields every
\* such position, including those an earlier shard call would have excluded:
\* shard predicates are replaced, not conjoined.
LastShard == shard_calls[Len(shard_calls)]
LastShardPositions ==
    {p \in 0 .. TraversalLength - 1 : p % LastShard.num_shards = LastShard.index}
C11_LastShardInEffect ==
    shard_calls # <<>> =>
        /\ \A j \in DOMAIN yielded : yielded[j].num_samples \in LastShardPositions
        /\ (it.state = "done" /\ filter_pipline = <<>>) =>
              {yielded[j].num_samples : j \in DOMAIN yielded} = LastShardPositions
\* shard(2, 0) then shard(3, 1) over ten records: positions 1, 4, 7, of which
\* 1 and 7 fail the predicate of the first call.
C11_Witness ==
    /\ it.state = "done"
    /\ Len(it_data.raw) = 10
    /\ filter_pipline = <<>>
    /\ shard_calls = <<[num_shards |-> 2, index |-> 0],
                       [num_shards |-> 3, index |-> 1]>>
    /\ YieldedPositions = <<1, 4, 7>>

\* ------------------------------------------------------------ SpecRead
Example(labels, label) == [labels |-> labels, label |-> label]
\* The examples _read may produce.
ExampleUniverse ==
    { Example(Absent, Absent),
      Example(Absent, Str("b")),
      Example(Absent, Str("z")),
      Example(Absent, PyNone),
      Example(StrList(<<"a", "c">>), Absent),
      Example(StrList(<<>>), Absent),
      Example(StrTuple(<<"a">>), Absent),
      Example(PyNone, Str("b")) }
LabelList == <<"a", "b", "c">>
Filenames == {"t.jsonl", "d.jsonl", "e.jsonl"}
SplitNames == {"train", "dev", "test"}

\* The values of data_files and of splits handed to read_datasets.
DataFilesInputs ==
    { ArgNone, ArgFile("t.jsonl"), ArgFile(""),
      ArgFiles("list", <<>>), ArgFiles("list", <<"d.jsonl", "t.jsonl">>),
      ArgFiles("tuple", <<"t.jsonl">>),
      ArgDict(<<>>),
      ArgDict(<< <<"train", "t.jsonl">>, <<"dev", "d.jsonl">> >>),
      ArgDict(<< <<"dev", "d.jsonl">>, <<"train", "t.jsonl">> >>),
      ArgDict(<< <<"test", "e.jsonl">> >>) }
SplitsInputs ==
    { ArgNone, ArgSplit("train"), ArgSplit(""),
      ArgSplits("list", <<>>), ArgSplits("list", <<"dev", "train">>),
      ArgSplits("tuple", <<"test">>) }

InitRead ==
    /\ builder \in [lazy : BOOLEAN, label_list : {NoLabels, Labels(LabelList)}]
    /\ \E content \in SeqsUpTo(ExampleUniverse, MaxExamples) :
          files = [f \in Filenames |->
                     IF f = "t.jsonl" THEN content
                     ELSE IF f = "d.jsonl" THEN <<Example(Absent, Str("b"))>>
                     ELSE <<>>]
    /\ rd = NoRead
    /\ ShardIdle
    /\ MapIdle
    /\ IterIdle
    /\ LoadIdle

\* The builder keeps no state from one call to the next (read assigns no
\* attribute): a behaviour makes one call and then traverses what it returned.
NoCallYet == rd.call = "none"

\* The IterDataset a read returned becomes the dataset under traversal.
Wrap(ds) ==
    /\ it_data' = ds.data
    /\ gen' = [pos |-> 0, done |-> FALSE]
    /\ filter_pipline' = <<>>
    /\ it_transform_pipline' = <<>>
    /\ shard_filter' = NoShard
    /\ it' = NoTraversal
    /\ yielded' = <<>>
    /\ it_calls' = 0
    /\ shard_calls' = <<>>

\* DatasetBuilder.read(filename, split)
Read(filename, split) ==
    /\ NoCallYet
    /\ LET ds == BuilderRead(builder, files[filename])
       IN  /\ rd' = [NoRead EXCEPT !.call = "read", !.filename = filename,
                                   !.split = split, !.status = ds.status,
                                   !.reads = <<[filename |-> filename, split |-> split]>>,
                                   !.datasets = IF ds.status \in {"MapDataset", "IterDataset"}
                                                THEN <<ds>> ELSE <<>>,
                                   !.single = TRUE]
           /\ Wrap(ds)
    /\ UNCHANGED <<builder, files, notRead>>

\* DatasetBuilder.read_datasets(splits, data_files)
ReadDatasetsCall(splits, data_files) ==
    /\ NoCallYet
    /\ LET r == ReadDatasets(builder, files, splits, data_files)
       IN  rd' = [NoRead EXCEPT !.call = "read_datasets", !.splits = splits,
                                !.data_files = data_files, !.status = r.status,
                                !.reads = r.reads, !.datasets = r.datasets,
                                !.single = r.single]
    /\ Wrap(Raised("none"))
    /\ UNCHANGED <<builder, files, notRead>>

\* SimpleBuilder(lazy, read_func).read(**kwargs), read_func producing the
\* examples of a file.
SimpleRead(lazy, filename) ==
    /\ NoCallYet
    /\ LET ds == SimpleBuilderRead(lazy, files[filename])
       IN  /\ rd' = [NoRead EXCEPT !.call = "simple_read", !.filename = filename,
                                   !.status = ds.status, !.datasets = <<ds>>,
                                   !.single = TRUE]
           /\ Wrap(ds)
    /\ UNCHANGED <<builder, files, notRead>>

HasIterDataset == rd.call \in {"read", "simple_read"} /\ rd.status = "IterDataset"

NextRead ==
    \/ \E f \in Filenames, sp \in SplitNames : Read(f, sp)
    \/ \E sp \in SplitsInputs, df \in DataFilesInputs : ReadDatasetsCall(sp, df)
    \/ \E lazy \in BOOLEAN, f \in Filenames : SimpleRead(lazy, f)
    \/ HasIterDataset /\ IterBegin
    \/ HasIterDataset /\ IterStep
    \/ HasIterDataset /\ IterAbandon

SpecRead == InitRead /\ [][NextRead]_vars

\* C3: in eager and in lazy mode, for every record _read produces: with a
\* label_list, a record whose field `labels` (preferred) or else `label` is
\* non-empty has it replaced by the 0-based index in label_list, element by
\* element for a sequence; a record whose label field is absent, empty or
\* null passes unchanged; a label missing from label_list raises a key error.
ClaimedIndex(s) == (CHOOSE i \in 1 .. Len(LabelList) : LabelList[i] = s) - 1
Known(s) == \E i \in 1 .. Len(LabelList) : LabelList[i] = s
ClaimedExample(example) ==
    LET col == IF example.labels.kind # "absent" THEN "labels"
               ELSE IF example.label.kind # "absent" THEN "label" ELSE "None"
        v == IF col = "labels" THEN example.labels ELSE example.label
        nonempty == /\ col # "None"
                    /\ v.kind \in {"str", "list", "tuple"}
                    /\ v.strs # <<>>
                    /\ v.strs # <<"">>
        mapped == IF v.kind = "str" THEN PyInt(ClaimedIndex(v.strs[1]))
                  ELSE IntList([k \in 1 .. Len(v.strs) |-> ClaimedIndex(v.strs[k])])
    IN  IF ~(builder.label_list.given /\ nonempty)
        THEN [err |-> "", example |-> example]
        ELSE IF \E k \in 1 .. Len(v.strs) : ~Known(v.strs[k])
        THEN [err |-> "KeyError", example |-> example]
        ELSE [err |-> "",
              example |-> IF col = "labels" THEN [example EXCEPT !.labels = mapped]
                          ELSE [example EXCEPT !.label = mapped]]
C3_LabelsMappedEveryRecord ==
    rd.call = "read" =>
        LET raw == files[rd.filename]
            claimed == [k \in 1 .. Len(raw) |-> ClaimedExample(raw[k])]
        IN  /\ (~builder.lazy /\ raw # <<>>) =>
                  IF \E k \in 1 .. Len(raw) : claimed[k].err # ""
                  THEN rd.status = "KeyError"
                  ELSE /\ rd.status = "MapDataset"
                       /\ rd.datasets[1].new_data =
                             [k \in 1 .. Len(raw) |-> claimed[k].example]
            /\ builder.lazy =>
                  /\ \A j \in DOMAIN yielded :
                        /\ claimed[yielded[j].src + 1].err = ""
                        /\ yielded[j].example = claimed[yielded[j].src + 1].example
                  /\ it.state = "error" =>
                        /\ it.error = "KeyError"
                        /\ claimed[gen.pos + 1].err = "KeyError"

\* C7: a function source is restartable: every full traversal yields the
\* source's whole record sequence.  A generator source is single-use: its
\* first full traversal yields its records, a traversal begun after it is
\* exhausted yields nothing, and traversing it emits the warning.
\* DatasetBuilder.read wraps a generator, SimpleBuilder.read a function.
C7_Restartability ==
    /\ HasIterDataset =>
          /\ rd.call = "read" => it_data.kind = "generator"
          /\ rd.call = "simple_read" => it_data.kind = "function"
    /\ it.state # "none" => (it.warned <=> it_data.kind = "generator")
    /\ (it_data.kind = "function" /\ it.state = "done") =>
          [j \in DOMAIN yielded |-> yielded[j].example] = it_data.raw
    /\ (it_data.kind = "generator" /\ it.state = "done"
           /\ it.start_pos = 0 /\ ~it.started_exhausted) =>
          /\ Len(yielded) = Len(it_data.raw)
          /\ \A j \in DOMAIN yielded : yielded[j].src = j - 1
    /\ (it_data.kind = "generator" /\ it.started_exhausted) => yielded = <<>>
\* The second traversal of an exhausted generator of two records has ended.
C7_Witness ==
    /\ rd.call = "read"
    /\ it_data.kind = "generator"
    /\ Len(it_data.raw) = 2
    /\ it.traversals = 2
    /\ it.started_exhausted
    /\ it.state = "done"
    /\ it.warned
\* The second full traversal of a function source of two records.
C7_WitnessFunction ==
    /\ rd.call = "simple_read"
    /\ it.traversals = 2
    /\ it.state = "done"
    /\ Len(yielded) = 2

\* C8: when _read produces no record, eager read raises the empty-dataset
\* error (ValueError) and returns no dataset; lazy read returns an
\* IterDataset without error, whose traversal yields nothing and raises
\* nothing.
C8_EmptyRead ==
    (rd.call = "read" /\ files[rd.filename] = <<>>) =>
        IF builder.lazy
        THEN /\ rd.status = "IterDataset"
             /\ Len(rd.datasets) = 1
             /\ it.state # "error"
             /\ yielded = <<>>
        ELSE /\ rd.status = "ValueError"
             /\ rd.datasets = <<>>
\* The traversal of the lazy dataset of an empty file has ended.
C8_Witness ==
    /\ rd.call = "read"
    /\ files[rd.filename] = <<>>
    /\ builder.lazy
    /\ it.state = "done"
\* The eager read of an empty file has failed.
C8_WitnessEager ==
    /\ rd.call = "read"
    /\ files[rd.filename] = <<>>
    /\ ~builder.lazy
    /\ rd.status = "ValueError"

\* C9: read_datasets fails with the invalid-argument error (AssertionError)
\* exactly when splits and data_files are both absent (None, or empty: "",
\* [], (), {}).  Otherwise it reads once per declared item: the data_files
\* items first, in list or insertion order (a dict entry with its own split,
\* a list entry or a single path with split 'train'), then the splits in the
\* order given; a failing read ends the call with that read's error.  When
\* every read succeeds it returns the dataset itself if there is exactly
\* one, the ordered sequence otherwise.
Declared(a) ==
    IF a.kind = "none" THEN <<>>
    ELSE IF a.kind = "str" /\ a.items = <<[split |-> "", filename |-> ""]>> THEN <<>>
    ELSE a.items
ExpectedReads ==
    LET dfs == Declared(rd.data_files)
        sps == Declared(rd.splits)
    IN  [k \in 1 .. Len(dfs) + Len(sps) |->
           IF k <= Len(dfs)
           THEN [filename |-> dfs[k].filename,
                 split |-> IF rd.data_files.kind = "dict" THEN dfs[k].split
                           ELSE "train"]
           ELSE [filename |-> GetData(sps[k - Len(dfs)].split),
                 split |-> sps[k - Len(dfs)].split]]
ReadOk(r) == BuilderRead(builder, files[r.filename]).status
                \in {"MapDataset", "IterDataset"}
C9_ReadDatasetsOrder ==
    rd.call = "read_datasets" =>
        /\ rd.status = "AssertionError" <=>
              (Declared(rd.splits) = <<>> /\ Declared(rd.data_files) = <<>>)
        /\ rd.status = "AssertionError" => rd.reads = <<>>
        /\ rd.status # "AssertionError" =>
              /\ Len(rd.reads) >= 1
              /\ Len(rd.reads) <= Len(ExpectedReads)
              /\ \A k \in 1 .. Len(rd.reads) : rd.reads[k] = ExpectedReads[k]
              /\ \A k \in 1 .. Len(rd.reads) - 1 : ReadOk(rd.reads[k])
        /\ rd.status = "returned" <=>
              /\ ExpectedReads # <<>>
              /\ \A k \in 1 .. Len(ExpectedReads) : ReadOk(ExpectedReads[k])
        /\ rd.status = "returned" =>
              /\ rd.reads = ExpectedReads
              /\ rd.datasets = [k \in 1 .. Len(ExpectedReads) |->
                                  BuilderRead(builder, files[ExpectedReads[k].filename])]
              /\ rd.single <=> Len(ExpectedReads) = 1
        /\ rd.status \notin {"returned", "AssertionError"} =>
              rd.status = BuilderRead(builder,
                              files[rd.reads[Len(rd.reads)].filename]).status
\* {"train": t, "dev": d} with splits [dev, train]: four datasets, the
\* data_files ones first in insertion order.
C9_Witness ==
    /\ rd.call = "read_datasets"
    /\ rd.status = "returned"
    /\ rd.data_files = ArgDict(<< <<"train", "t.jsonl">>, <<"dev", "d.jsonl">> >>)
    /\ rd.splits = ArgSplits("list", <<"dev", "train">>)
    /\ Len(rd.datasets) = 4
    /\ ~rd.single
    /\ rd.reads[1].split = "train" /\ rd.reads[3].split = "dev"
\* A single path: the dataset itself is returned.
C9_WitnessSingle ==
    /\ rd.call = "read_datasets"
    /\ rd.status = "returned"
    /\ rd.data_files = ArgFile("t.jsonl")
    /\ rd.single

\* ------------------------------------------------------------ SpecLoad
\* The classes a dataset name may resolve to: one declaring BUILDER_CONFIGS,
\* one declaring SPLITS, one declaring both, one declaring neither.
ReaderClasses ==
    { ReaderClass(TRUE, TwoConfigs, FALSE, {}),
      ReaderClass(FALSE, NoConfigs, TRUE, {"train", "dev"}),
      ReaderClass(TRUE, TwoConfigs, TRUE, {"train", "dev"}),
      ReaderClass(FALSE, NoConfigs, FALSE, {}) }

\* path_or_read_func: a dataset name, or a read function with its parameters.
NamedSource == [is_function |-> FALSE, parameters |-> {}, examples |-> <<>>]
FunctionSource(parameters, examples) ==
    [is_function |-> TRUE, parameters |-> parameters, examples |-> examples]
LoadSources ==
    {NamedSource} \cup
    {FunctionSource(ps, files["t.jsonl"]) : ps \in {{}, {"data_files"}}}

NameInputs == {NoName, Name("a"), Name("b"), Name("zz")}
LazyInputs == {LazyNone, Lazy(TRUE), Lazy(FALSE)}

InitLoad ==
    /\ builder \in [lazy : BOOLEAN, label_list : {NoLabels, Labels(LabelList)}]
    /\ \E content \in SeqsUpTo({Example(Absent, Str("b"))}, MaxExamples) :
          files = [f \in Filenames |->
                     IF f = "t.jsonl" THEN content
                     ELSE IF f = "d.jsonl" THEN <<Example(Absent, Str("b"))>>
                     ELSE <<>>]
    /\ rd = NoRead
    /\ reader_cls \in ReaderClasses
    /\ ld = NoLoad
    /\ ShardIdle
    /\ MapIdle
    /\ IterIdle

\* load_dataset(path_or_read_func, name, data_files, splits, lazy)
LoadDataset(source, name, data_files, splits, lazy) ==
    /\ ~ld.called
    /\ LET r == Load_dataset(source, reader_cls, builder, files, name, data_files,
                             splits, lazy)
       IN  ld' = [called |-> TRUE, source |-> source, name |-> name,
                  data_files |-> data_files, splits |-> splits, lazy |-> lazy,
                  error |-> r.error, what |-> r.what,
                  custom_kwargs |-> r.custom_kwargs, result |-> r.result]
    /\ UNCHANGED <<reader_cls, notLoad>>

NextLoad ==
    \E source \in LoadSources, name \in NameInputs, data_files \in DataFilesInputs,
       splits \in SplitsInputs, lazy \in LazyInputs :
          LoadDataset(source, name, data_files, splits, lazy)

SpecLoad == InitLoad /\ [][NextLoad]_vars

\* C12: load with a named source fails with the validation error exactly
\* when a name, a split or a data_files key that was given is not a member of
\* what the builder declares (the config table for the name, the split names
\* of the selected config or else SPLITS for splits and keys); an argument
\* left absent never causes a validation error; when validation passes load
\* returns the result of read_datasets(data_files, splits).
GivenSplitNames ==
    (IF ld.data_files.kind = "dict"
     THEN {ld.data_files.items[k].split : k \in DOMAIN ld.data_files.items}
     ELSE {})
    \cup (IF ld.splits.kind # "none"
          THEN {ld.splits.items[k].split : k \in DOMAIN ld.splits.items}
          ELSE {})
NameRejected ==
    reader_cls.has_configs /\ ld.name.given
    /\ ld.name.value \notin DOMAIN reader_cls.configs
DeclaredSplitNames ==
    IF ~reader_cls.has_configs THEN reader_cls.splits
    ELSE IF ld.name.given /\ ld.name.value \in DOMAIN reader_cls.configs
    THEN reader_cls.configs[ld.name.value]
    ELSE UNION {reader_cls.configs[n] : n \in DOMAIN reader_cls.configs}
SplitRejected == \E sp \in GivenSplitNames : sp \notin DeclaredSplitNames
C12_LoadValidation ==
    (ld.called /\ ~ld.source.is_function
       /\ (reader_cls.has_configs \/ reader_cls.has_splits)) =>
        /\ ld.error = "ValueError" <=> (NameRejected \/ SplitRejected)
        /\ (~ld.name.given /\ ld.splits.kind = "none"
              /\ ld.data_files.kind = "none") => ld.error = ""
        /\ ld.error = "" =>
              ld.result = ReadDatasets(ReaderInstance(builder, ld.lazy), files,
                                       ld.splits, ld.data_files)
====
